---- MODULE Spec2Model ----
(***************************************************************************)
(* Model of alchemux's batch executor (cli/commands/batch.py), single-job  *)
(* pipeline (cli/commands/distill.py) and yt-dlp option builder            *)
(* (core/downloader.py).                                                   *)
(***************************************************************************)
EXTENDS Integers, Sequences, FiniteSets, TLC

\* ------------------------------------------------------------------------
\* Bounds
\* ------------------------------------------------------------------------
MaxUrls == 3

\* Python's None
None == "<None>"

\* ------------------------------------------------------------------------
\* State
\* ------------------------------------------------------------------------
VARIABLES
    \* _run_batch_execution
    urls,           \* the list handed to _run_batch_execution
    bpc,            \* position in _run_batch_execution
    i,              \* number of loop iterations started
    successes,
    failures,
    env_batch,      \* os.environ["ALCHEMUX_BATCH"], None when unset
    prev_batch,     \* local prev_batch
    invoked,        \* urls passed to invoke(), in call order
    outcomes,       \* what each invoke() call did, in call order
    batch_sleep,    \* per invoke(): did the job's downloads get sleep_interval
    pending,        \* exception propagating out of the loop (None if none)
    summary,        \* the printed summary <<successes, failures, total>>; <<>> until printed
    later_sleep     \* for each download built after the batch: has it sleep_interval

bvars == <<urls, bpc, i, successes, failures, env_batch, prev_batch, invoked,
           outcomes, batch_sleep, pending, summary, later_sleep>>

VARIABLES
    \* distill
    job,                \* the per-run overrides distill() is called with
    cfg,                \* what ConfigManager returns for the keys distill reads
    dpc,                \* position in distill(): start, loop, exited (typer.Exit
                        \* before the loop), done (the loop was left)
    formats_to_produce,
    upload_to_local,
    upload_to_s3,
    upload_to_gcp,
    warnings,           \* destinations reported as "not configured"
    is_video_run,
    fidx,               \* number of formats of formats_to_produce processed
    seal_items,
    fractured_entries,
    calls,              \* calls made to the engine, the inscriber and the uploaders
    exit_code           \* -1 while distill() runs, then the process exit code

dvars == <<job, cfg, dpc, formats_to_produce, upload_to_local, upload_to_s3,
           upload_to_gcp, warnings, is_video_run, fidx, seal_items,
           fractured_entries, calls, exit_code>>

VARIABLES
    \* one call of MediaDownloader._build_ydl_opts
    opts_args,          \* the config and the arguments of the call
    opts_result         \* <<>> before the call, then <<what the call gave>>

ovars == <<opts_args, opts_result>>

VARIABLES
    \* one evaluation of the destination resolution of distill()
    dest_args,          \* the destination flags and the storage settings
    dest_result         \* <<>> before the evaluation, then <<what it gave>>

rvars == <<dest_args, dest_result>>

VARIABLES
    \* one call of MediaDownloader._find_downloaded_file
    find_args,          \* the files on disk and the arguments of the call
    find_result         \* <<>> before the call, then <<what the call gave>>

fvars == <<find_args, find_result>>

VARIABLES
    \* the batch command around _run_batch_execution
    cmd_in,             \* the terminal, the setup state and what the prompts give
    cmd_exit            \* <<>> while the command runs, then <<process exit code>>

cvars == <<cmd_in, cmd_exit>>

vars == <<bvars, dvars, ovars, rvars, fvars, cvars>>

\* no batch command is being looked at
CmdIdle == cmd_in = None /\ cmd_exit = <<>>

\* no call of _find_downloaded_file is being looked at
FindIdle == find_args = None /\ find_result = <<>>

\* no destination resolution is being looked at
DestIdle == dest_args = None /\ dest_result = <<>>

\* no call of _build_ydl_opts is being looked at
OptsIdle == opts_args = None /\ opts_result = <<>>

\* the batch executor is not running
BatchIdle ==
    /\ urls = <<>> /\ bpc = "idle" /\ i = 0 /\ successes = 0 /\ failures = 0
    /\ env_batch = None /\ prev_batch = None /\ invoked = <<>> /\ outcomes = <<>>
    /\ batch_sleep = <<>> /\ pending = None /\ summary = <<>> /\ later_sleep = <<>>

\* distill() is not running
DistillIdle ==
    /\ job = None /\ cfg = None /\ dpc = "idle" /\ formats_to_produce = <<>>
    /\ upload_to_local = FALSE /\ upload_to_s3 = FALSE /\ upload_to_gcp = FALSE
    /\ warnings = {} /\ is_video_run = FALSE /\ fidx = 0 /\ seal_items = <<>>
    /\ fractured_entries = <<>> /\ calls = <<>> /\ exit_code = -1

\* ------------------------------------------------------------------------
\* Batch executor: cli/commands/batch.py
\* ------------------------------------------------------------------------
UrlNames == {"u1", "u2"}

RECURSIVE SeqsUpTo(_, _)
SeqsUpTo(S, n) ==
    IF n = 0 THEN {<<>>}
    ELSE LET shorter == SeqsUpTo(S, n - 1)
         IN shorter \cup {Append(s, x) : s \in {t \in shorter : Len(t) = n - 1}, x \in S}

\* Values os.environ may hold for ALCHEMUX_BATCH when the batch starts
EnvValues == {None, "", "0", "1"}

\* What one invoke() call can do, seen from _run_batch_execution
InvokeOutcomes == {"return", "Exit0", "Exit1", "Exit130", "Exception", "KeyboardInterrupt"}

\* downloader.py: `if os.getenv("ALCHEMUX_BATCH"):` - set and non-empty
BatchSleepEnabled(env) == env # None /\ env # ""

InitBatch ==
    /\ urls \in SeqsUpTo(UrlNames, MaxUrls)
    /\ env_batch \in EnvValues
    /\ bpc = "start"
    /\ i = 0
    /\ successes = 0
    /\ failures = 0
    /\ prev_batch = None
    /\ invoked = <<>>
    /\ outcomes = <<>>
    /\ batch_sleep = <<>>
    /\ pending = None
    /\ summary = <<>>
    /\ later_sleep = <<>>
    /\ DistillIdle
    /\ OptsIdle
    /\ DestIdle
    /\ FindIdle
    /\ CmdIdle

\* batch.py 298-304: counters, save and set the flag
BatchStart ==
    /\ bpc = "start"
    /\ prev_batch' = env_batch
    /\ env_batch' = "1"
    /\ bpc' = "loop"
    /\ UNCHANGED <<urls, i, successes, failures, invoked, outcomes, batch_sleep,
                   pending, summary, later_sleep>>

\* the counters after one invoke() call: batch.py 309-328
CountSuccess(s, o) == IF o = "return" THEN s + 1 ELSE s

CountFailure_ExitOnly(f, o) == IF o \in {"Exit1", "Exit130"} THEN f + 1 ELSE f

CountFailure(f, o) == IF o \in {"Exit1", "Exit130", "Exception"} THEN f + 1 ELSE f

Escapes_Swallowed(o) == FALSE

\* does the exception leave the inner try (not typer.Exit, not Exception)
Escapes(o) == o = "KeyboardInterrupt"

\* batch.py 306-328: one loop iteration, invoke() included
BatchIteration ==
    /\ bpc = "loop"
    /\ i < Len(urls)
    /\ \E o \in InvokeOutcomes :
        /\ invoked' = Append(invoked, urls[i + 1])
        /\ outcomes' = Append(outcomes, o)
        /\ batch_sleep' = Append(batch_sleep, BatchSleepEnabled(env_batch))
        /\ successes' = CountSuccess(successes, o)
        /\ failures' = CountFailure(failures, o)
        /\ i' = i + 1
        /\ IF Escapes(o)
           THEN pending' = o /\ bpc' = "finally"
           ELSE pending' = pending /\ bpc' = "loop"
    /\ UNCHANGED <<urls, env_batch, prev_batch, summary, later_sleep>>

\* batch.py 306: the for loop is exhausted
BatchLoopEnd ==
    /\ bpc = "loop"
    /\ i = Len(urls)
    /\ bpc' = "finally"
    /\ UNCHANGED <<urls, i, successes, failures, env_batch, prev_batch, invoked,
                   outcomes, batch_sleep, pending, summary, later_sleep>>

RestoreFlag_Leaked(prev) == "1"

\* batch.py 329-333: the flag after the finally block
RestoreFlag(prev) == prev

\* batch.py 329-335: finally block, then the summary unless an exception propagates
BatchFinally ==
    /\ bpc = "finally"
    /\ env_batch' = RestoreFlag(prev_batch)
    /\ IF pending = None
       THEN /\ summary' = <<successes, failures, Len(urls)>>
            /\ bpc' = "done"
       ELSE /\ summary' = summary
            /\ bpc' = "raised"
    /\ UNCHANGED <<urls, i, successes, failures, prev_batch, invoked, outcomes,
                   batch_sleep, pending, later_sleep>>

\* a later single-job download in the same process: downloader.py 236-240
LaterDownload ==
    /\ bpc \in {"done", "raised"}
    /\ later_sleep = <<>>
    /\ later_sleep' = <<BatchSleepEnabled(env_batch)>>
    /\ UNCHANGED <<urls, bpc, i, successes, failures, env_batch, prev_batch,
                   invoked, outcomes, batch_sleep, pending, summary>>

NextBatch ==
    \/ BatchStart /\ UNCHANGED <<dvars, ovars, rvars, fvars, cvars>>
    \/ BatchIteration /\ UNCHANGED <<dvars, ovars, rvars, fvars, cvars>>
    \/ BatchLoopEnd /\ UNCHANGED <<dvars, ovars, rvars, fvars, cvars>>
    \/ BatchFinally /\ UNCHANGED <<dvars, ovars, rvars, fvars, cvars>>
    \/ LaterDownload /\ UNCHANGED <<dvars, ovars, rvars, fvars, cvars>>

SpecBatch == InitBatch /\ [][NextBatch]_vars

\* ------------------------------------------------------------------------
\* Properties of the batch executor
\* ------------------------------------------------------------------------
FailureOutcomes == {"Exit1", "Exit130", "Exception"}

CountOf(seq, S) == Cardinality({k \in DOMAIN seq : seq[k] \in S})

\* C1: when the loop has finished and the summary is printed, successes +
\* failures equals the number of URLs, whatever each invoke() call did
\* (return, typer.Exit with any code including 0, any other Exception).
C1_CountersSumToTotal ==
    bpc = "done" => successes + failures = Len(urls)

\* C2: a job whose invoke() raises a non-zero typer.Exit or an ordinary
\* Exception is counted as exactly one failure and does not stop the batch:
\* absent an interrupt every URL is passed to invoke() exactly once, in order.
C2_ContinueOnError ==
    /\ invoked = SubSeq(urls, 1, Len(invoked))
    /\ failures = CountOf(outcomes, FailureOutcomes)
    /\ (bpc \in {"finally", "done", "raised"} /\ CountOf(outcomes, {"KeyboardInterrupt"}) = 0)
          => (invoked = urls /\ bpc # "raised")

C2_Witness ==
    /\ bpc = "done"
    /\ Len(urls) >= 3
    /\ outcomes[1] = "Exception"
    /\ outcomes[2] = "Exit1"
    /\ outcomes[3] = "return"
    /\ failures = 2
    /\ invoked = urls

\* C3 as stated: whatever the flag's value before the batch, no download built
\* after the batch gets the batch sleep_interval options.
C3_NoSleepAfterBatch ==
    \A k \in DOMAIN later_sleep : later_sleep[k] = FALSE

\* C3 amended: when _run_batch_execution ends (normally or by an escaping
\* interrupt) the flag holds again the value it had before the batch (unset
\* if it was unset), so a later download gets the batch sleep options exactly
\* when the flag was already set to a non-empty value before the batch.
C3_FlagRestored ==
    /\ bpc \in {"done", "raised"} => env_batch = prev_batch
    /\ \A k \in DOMAIN later_sleep : later_sleep[k] = BatchSleepEnabled(prev_batch)
    /\ \A k \in DOMAIN batch_sleep : batch_sleep[k] = TRUE

C3_Witness ==
    /\ bpc = "raised"
    /\ prev_batch = None
    /\ batch_sleep # <<>>
    /\ later_sleep = <<FALSE>>

\* C4: a KeyboardInterrupt raised while a job runs is neither swallowed nor
\* counted: it leaves the loop, no later URL is passed to invoke(), no
\* summary is printed and the exception propagates to the caller.
C4_InterruptTerminatesBatch ==
    \A k \in DOMAIN outcomes :
        outcomes[k] = "KeyboardInterrupt" =>
            /\ k = Len(outcomes)
            /\ pending = "KeyboardInterrupt"
            /\ bpc \in {"finally", "raised"}
            /\ summary = <<>>
            /\ successes + failures = CountOf(SubSeq(outcomes, 1, k - 1), FailureOutcomes \cup {"return"})

C4_Witness ==
    /\ bpc = "raised"
    /\ pending = "KeyboardInterrupt"
    /\ Len(outcomes) = 2
    /\ outcomes[1] = "Exception"
    /\ Len(urls) = 3
    /\ invoked = SubSeq(urls, 1, 2)

\* ------------------------------------------------------------------------
\* ConfigManager: core/config_manager.py
\* ------------------------------------------------------------------------
\* Python truthiness of an Optional[str]
Truthy(x) == x # None /\ x # ""

\* str.strip() on the values the model draws
Strip(x) == IF x = " " THEN "" ELSE x

\* ConfigManager.get(key, default): the stored value, or the default when absent
CfgGet(value, default) == IF value # None THEN value ELSE default

\* ConfigManager.validate_required(["paths.output_dir"])
ValidateRequired(c) == Truthy(c.output_dir) /\ Strip(c.output_dir) # ""

\* ConfigManager.is_s3_configured
IsS3Configured(c) == c.s3_bucket /\ c.s3_keys

\* ConfigManager.is_gcp_configured
IsGcpConfigured(c) == c.gcp_bucket /\ c.gcp_sa_key

\* ConfigManager.get_storage_destination
GetStorageDestination(c) ==
    LET dest == CfgGet(c.destination, "local")
    IN IF dest \notin {"local", "s3", "gcp"} THEN "local" ELSE dest

\* S3Uploader.is_configured
S3UploaderConfigured(c) == c.s3_endpoint /\ c.s3_keys /\ c.s3_bucket

\* GCPUploader.is_configured
GcpUploaderConfigured(c) == c.gcp_env_bucket /\ c.gcp_sa_key

\* ------------------------------------------------------------------------
\* Option builder and download: core/downloader.py
\* ------------------------------------------------------------------------
\* distill.py 184-186 and downloader.py 150-152: the same expression
VideoEnabledInConfig(c) ==
    LET video_format_config == CfgGet(c.video_format, "")
    IN (Truthy(video_format_config) /\ Truthy(Strip(video_format_config)))
       \/ c.video_enabled_formats # <<>>

\* MediaDownloader._get_audio_format
GetAudioFormat(c, audio_format) ==
    IF Truthy(audio_format) THEN audio_format
    ELSE LET v == CfgGet(c.audio_format, "mp3") IN IF Truthy(v) THEN v ELSE "mp3"

\* MediaDownloader._get_video_format
GetVideoFormat(c, video_format) ==
    IF Truthy(video_format) THEN video_format
    ELSE LET v == CfgGet(c.video_format, "mp4") IN IF Truthy(v) THEN v ELSE "mp4"

\* _VIDEO_FORMAT_SELECTORS, with the mp4 entry as default
VideoSelector(video_fmt) ==
    CASE video_fmt = "mkv" -> <<"bv*+ba/b", "mkv">>
      [] video_fmt = "webm" -> <<"bv*[ext=webm]+ba[ext=webm]/b[ext=webm]/b", "webm">>
      [] OTHER -> <<"bv*[ext=mp4]+ba[ext=m4a]/b[ext=mp4]/b", "mp4">>

\* MediaDownloader._should_apply_flac_override
ShouldApplyFlacOverride(c, audio_fmt, flac_flag) ==
    IF flac_flag THEN TRUE
    ELSE IF audio_fmt = "flac" THEN CfgGet(c.flac_override, "false") = "true"
    ELSE FALSE

\* decides between the video and the audio options: downloader.py 153
IsVideo(c, video_format) == video_format # None /\ VideoEnabledInConfig(c)

\* MediaDownloader._build_ydl_opts: the options that depend on the format
\* arguments and on the batch flag
BuildYdlOpts(c, env, audio_format, video_format, flac_flag) ==
    IF IsVideo(c, video_format)
    THEN LET sel == VideoSelector(Strip(GetVideoFormat(c, video_format)))
         IN [kind |-> "video",
             format |-> sel[1],
             merge_output_format |-> sel[2],
             extractaudio |-> FALSE,
             audioformat |-> None,
             postprocessors |-> <<>>,
             mono16k |-> FALSE,
             sleep_interval |-> BatchSleepEnabled(env)]
    ELSE LET audio_fmt == IF flac_flag THEN "flac" ELSE GetAudioFormat(c, audio_format)
             audio_selector == CfgGet(c.audio_format_selector, "best")
             flac16 == ShouldApplyFlacOverride(c, audio_fmt, flac_flag)
         IN [kind |-> "audio",
             format |-> IF Strip(audio_selector) = "best" THEN "best" ELSE "ba",
             merge_output_format |-> None,
             extractaudio |-> TRUE,
             audioformat |-> audio_fmt,
             postprocessors |-> <<[key |-> "FFmpegExtractAudio",
                                   preferredcodec |-> IF flac16 THEN "flac" ELSE audio_fmt]>>,
             mono16k |-> flac16,
             sleep_interval |-> BatchSleepEnabled(env)]

\* What one run of the engine (YoutubeDL.download plus the search for the
\* produced file) can do: produce a file, finish without a file that can be
\* found, or raise one of these errors
RawErrors == {"E403", "EForbidden", "EVideoData", "ENetwork"}

EngineResults == {"ok", "nofile"} \cup RawErrors

\* the substrings of the lower-cased error text that the code looks for
Tokens(e) ==
    CASE e = "E403" -> {"403", "forbidden"}
      [] e = "EForbidden" -> {"forbidden"}
      [] e = "EVideoData" -> {"video data", "unable to download"}
      [] e = "ENetwork" -> {"network"}
      [] OTHER -> {}

\* downloader.py 379: the condition that starts the alternate-format chain
AudioChainStarts(video_format, e) ==
    ~Truthy(video_format) /\ ({"403", "forbidden"} \cap Tokens(e) # {})

\* variant: a chain that goes round again after its last identifier
FallbackChain_GoesRoundAgain(opts) ==
    [success |-> FALSE,
     engine_calls |-> [n \in 1..4 |->
                         [op |-> "download",
                          arg |-> [opts EXCEPT !.format = <<"140", "139", "251", "140">>[n]],
                          res |-> "E403",
                          audio_format |-> opts.audioformat,
                          video_format |-> "<None>"]]]
\* downloader.py 383-399: the chain over '140', '139', '251'. Each iteration
\* reads the local name audio_fmt, which download() never binds: the
\* NameError is caught by the iteration's own except clause before the
\* engine is called, so the chain makes no engine call and never succeeds.
FallbackChain(opts) == [success |-> FALSE, engine_calls |-> <<>>]

\* the file the engine leaves behind for these options
Artifact(opts) ==
    [stem |-> "title",
     fmt |-> IF opts.kind = "video" THEN opts.merge_output_format ELSE opts.audioformat]

\* MediaDownloader.download: (success, file_path, error_msg) and the engine
\* calls made; error_msg is the set of substrings it contains, {} for None
\* an engine call is logged with the options it got and with the
\* audio_format and video_format arguments of the download() that made it
Download(c, env, audio_format, video_format, flac_flag, r) ==
    LET opts == BuildYdlOpts(c, env, audio_format, video_format, flac_flag)
        first == <<[op |-> "download", arg |-> opts, res |-> r,
                    audio_format |-> audio_format, video_format |-> video_format]>>
    IN IF r = "ok"
       THEN [success |-> TRUE, file_path |-> Artifact(opts), error_msg |-> {},
             engine_calls |-> first]
       ELSE IF r = "nofile"
       THEN [success |-> FALSE, file_path |-> None, error_msg |-> {"not found"},
             engine_calls |-> first]
       ELSE IF AudioChainStarts(video_format, r)
       THEN [success |-> FALSE, file_path |-> None,
             error_msg |-> Tokens(r) \cup {"download failed"},
             engine_calls |-> first \o FallbackChain(opts).engine_calls]
       ELSE [success |-> FALSE, file_path |-> None,
             error_msg |-> Tokens(r) \cup {"download failed"},
             engine_calls |-> first]

\* ------------------------------------------------------------------------
\* Single-job pipeline: cli/commands/distill.py
\* ------------------------------------------------------------------------
\* is_valid_url on the URLs the model draws
IsValidUrl(url) == url = "https://host/item"

\* _normalize_fracture_cause, on the set of substrings of the message
\* (distill.py 33-57); "<rest of message>" stands for rest[:80], the first 80
\* characters of the message's own text after "download failed" is removed
NormalizeFractureCause(msg) ==
    IF msg = {} THEN "unknown"
    ELSE IF {"403", "forbidden"} \cap msg # {}
    THEN IF {"video data", "unable to download"} \cap msg # {}
         THEN "CDN blocked (HTTP 403) - try from residential IP"
         ELSE "HTTP 403 Forbidden"
    ELSE IF {"429", "too many requests"} \cap msg # {} THEN "rate limited (HTTP 429)"
    ELSE IF {"network", "connection", "timeout", "unreachable"} \cap msg # {} THEN "network error"
    ELSE IF {"not found", "404"} \cap msg # {} THEN "not found (HTTP 404)"
    ELSE IF "download failed" \in msg
    THEN IF msg \ {"download failed"} # {} THEN "<rest of message>" ELSE "download failed"
    ELSE "unknown"

ResolveFormats_NoDefault(j, c) ==
    LET video_enabled_in_config == VideoEnabledInConfig(c)
        video_formats == IF c.video_enabled_formats # <<>> THEN c.video_enabled_formats
                         ELSE <<CfgGet(c.video_format, "")>>
    IN IF Truthy(j.video_format) /\ video_enabled_in_config THEN <<j.video_format>>
       ELSE IF j.flac THEN <<"flac">>
       ELSE IF Truthy(j.audio_format) THEN <<j.audio_format>>
       ELSE IF video_enabled_in_config THEN c.audio_enabled_formats \o video_formats
       ELSE c.audio_enabled_formats

\* distill.py 182-203: formats_to_produce
ResolveFormats(j, c) ==
    LET video_format_config == CfgGet(c.video_format, "")
        video_enabled_formats == c.video_enabled_formats
        video_enabled_in_config == VideoEnabledInConfig(c)
        enabled_audio == c.audio_enabled_formats
        audio_formats == IF enabled_audio # <<>> THEN enabled_audio
                         ELSE <<CfgGet(c.audio_format, "mp3")>>
        video_formats == IF video_enabled_formats # <<>> THEN video_enabled_formats
                         ELSE IF Truthy(video_format_config) THEN <<video_format_config>>
                         ELSE <<>>
    IN IF Truthy(j.video_format) /\ video_enabled_in_config THEN <<j.video_format>>
       ELSE IF j.flac THEN <<"flac">>
       ELSE IF Truthy(j.audio_format) THEN <<j.audio_format>>
       ELSE IF video_enabled_in_config THEN audio_formats \o video_formats
       ELSE audio_formats

\* distill.py 236-243 and 253-260: a remote primary that is not configured is
\* replaced by storage.fallback, "error" meaning local
SubstituteFallback(c, storage_dest) ==
    LET fallback == CfgGet(c.fallback, "local")
        unconfigured == \/ storage_dest = "s3" /\ ~IsS3Configured(c)
                        \/ storage_dest = "gcp" /\ ~IsGcpConfigured(c)
    IN IF unconfigured
       THEN IF fallback # "error" THEN fallback ELSE "local"
       ELSE storage_dest

\* variant: with several flags, a dropped remote is replaced by the fallback
ResolveDestinations_MultiSubstitutes(j, c) ==
    LET flags_set == j.flags
        dropped == {d \in {"s3", "gcp"} :
                       \/ (d = "s3" /\ ~IsS3Configured(c))
                       \/ (d = "gcp" /\ ~IsGcpConfigured(c))}
        primaries == IF flags_set = {} THEN {GetStorageDestination(c)} ELSE flags_set
        all == {SubstituteFallback(c, d) : d \in primaries}
    IN [local |-> "local" \in all, s3 |-> "s3" \in all, gcp |-> "gcp" \in all,
        warnings |-> dropped \cap primaries]

\* distill.py 207-264: upload_to_local, upload_to_s3, upload_to_gcp and the
\* "not configured" warnings printed
ResolveDestinations(j, c) ==
    LET flags_set == j.flags
        warn == {d \in {"s3", "gcp"} :
                    \/ d = "s3" /\ ~IsS3Configured(c)
                    \/ d = "gcp" /\ ~IsGcpConfigured(c)}
    IN IF Cardinality(flags_set) > 1
       THEN [local |-> "local" \in flags_set,
             s3 |-> "s3" \in flags_set /\ IsS3Configured(c),
             gcp |-> "gcp" \in flags_set /\ IsGcpConfigured(c),
             warnings |-> warn \cap flags_set]
       ELSE LET primary == IF Cardinality(flags_set) = 1
                           THEN CHOOSE d \in flags_set : TRUE
                           ELSE GetStorageDestination(c)
                storage_dest == SubstituteFallback(c, primary)
            IN [local |-> storage_dest = "local",
                s3 |-> storage_dest = "s3",
                gcp |-> storage_dest = "gcp",
                warnings |-> warn \cap {primary}]

\* video_ext_map.get(fmt, ".mp4"), extensions written without the dot
VideoExt(fmt) ==
    IF fmt \in {"mp4", "mkv", "webm", "mov", "avi", "flv", "gif"} THEN fmt ELSE "mp4"

\* audio_ext_map.get(fmt, ".mp3")
AudioExt(fmt) ==
    CASE fmt = "aac" -> "aac"
      [] fmt = "alac" -> "m4a"
      [] fmt = "m4a" -> "m4a"
      [] fmt = "opus" -> "opus"
      [] fmt = "vorbis" -> "ogg"
      [] fmt = "wav" -> "wav"
      [] OTHER -> "mp3"

\* distill.py 308-313: the extension of the file name for one format
LoopExt(video_run, fmt) ==
    IF video_run THEN VideoExt(fmt)
    ELSE IF fmt = "flac" THEN "flac"
    ELSE AudioExt(fmt)

\* distill.py 301
IsVideoRun(j) == Truthy(j.video_format)

\* distill.py 333: the failure of a video run that starts the audio retry
VideoFallbackStarts(video_run, error_msg) ==
    video_run /\ ({"403", "video data", "forbidden"} \cap error_msg # {})

\* the value of a successful upload, and of the local path, as shown in a seal
Shown(where, file_path) == [where |-> where, file |-> file_path]

\* variant: an upload that fails leaves nothing to show for the artifact
ThisDisplay_FailedUploadShowsNothing(file_path, to_gcp, gup, to_s3, sup) ==
    IF to_gcp /\ gup = "ok" THEN Shown("gcp", file_path)
    ELSE IF to_s3 /\ sup = "ok" THEN Shown("s3", file_path)
    ELSE IF to_gcp \/ to_s3 THEN Shown("nothing", file_path)
    ELSE Shown("local", file_path)

\* distill.py 381-403: this_display after the two optional uploads; the
\* pair is <<this_display is not None, this_display>>
ThisDisplay(file_path, to_gcp, gup, to_s3, sup) ==
    LET unset == <<FALSE, Shown("local", file_path)>>
        after_gcp == IF to_gcp
                     THEN IF gup = "ok" THEN <<TRUE, Shown("gcp", file_path)>>
                          ELSE <<TRUE, Shown("local", file_path)>>
                     ELSE unset
        after_s3 == IF to_s3
                    THEN IF sup = "ok"
                         THEN IF ~after_gcp[1] THEN <<TRUE, Shown("s3", file_path)>> ELSE after_gcp
                         ELSE IF ~after_gcp[1] THEN <<TRUE, Shown("local", file_path)>> ELSE after_gcp
                    ELSE after_gcp
    IN IF ~after_s3[1] THEN Shown("local", file_path) ELSE after_s3[2]

\* variant: the S3 upload is skipped once the GCP upload has succeeded
ArtifactCalls_ShortCircuit(file_path, url, ins, to_gcp, gup, to_s3, sup) ==
    <<[op |-> "inscribe", arg |-> <<file_path, url>>, res |-> ins]>>
    \o (IF to_gcp THEN <<[op |-> "upload_gcp", arg |-> file_path, res |-> gup]>> ELSE <<>>)
    \o (IF to_s3 /\ ~(to_gcp /\ gup = "ok")
        THEN <<[op |-> "upload_s3", arg |-> file_path, res |-> sup]>> ELSE <<>>)

\* variant: the uploads are made only when the inscription succeeded
ArtifactCalls_InscriptionGates(file_path, url, ins, to_gcp, gup, to_s3, sup) ==
    <<[op |-> "inscribe", arg |-> <<file_path, url>>, res |-> ins]>>
    \o (IF ins /\ to_gcp THEN <<[op |-> "upload_gcp", arg |-> file_path, res |-> gup]>>
        ELSE <<>>)
    \o (IF ins /\ to_s3 THEN <<[op |-> "upload_s3", arg |-> file_path, res |-> sup]>>
        ELSE <<>>)

\* distill.py 371-401: the inscriber call, with its arguments (file_path, url),
\* and the uploader calls for one artifact
ArtifactCalls(file_path, url, ins, to_gcp, gup, to_s3, sup) ==
    <<[op |-> "inscribe", arg |-> <<file_path, url>>, res |-> ins]>>
    \o (IF to_gcp THEN <<[op |-> "upload_gcp", arg |-> file_path, res |-> gup]>> ELSE <<>>)
    \o (IF to_s3 THEN <<[op |-> "upload_s3", arg |-> file_path, res |-> sup]>> ELSE <<>>)

Records_FallbackUnrecorded(success, retried, ext, display, cause) ==
    [seal |-> IF success THEN <<<<ext, display>>>> ELSE <<>>,
     fracture |-> IF success \/ retried THEN <<>> ELSE <<<<ext, cause>>>>]

\* distill.py 355-363 and 402-405: what one format appends to seal_items
\* and to fractured_entries
Records(success, retried, ext, display, cause) ==
    [seal |-> IF success THEN <<<<ext, display>>>> ELSE <<>>,
     fracture |-> IF success THEN <<>> ELSE <<<<ext, cause>>>>]

FinalExitCode_AnyFracture(seals, fractures) ==
    IF fractures # <<>> THEN 1 ELSE 0

\* distill.py 412-417: the exit code at the end of distill()
FinalExitCode(seals, fractures) ==
    IF fractures # <<>> /\ seals = <<>> THEN 1 ELSE 0

\* ---- inputs of one distill() call ----
MaxAudioFormats == 2
MaxVideoFormats == 1

AudioNames == {"mp3", "flac"}
VideoNames == {"webm"}
UrlInputs == {"https://host/item", "not a url"}
UploadResults == {"ok", "fail"}

\* storage settings and destination flags
DestInput(flags, destination, fallback, s3b, s3e, s3k, gb, geb, gk) ==
    [flags |-> flags, destination |-> destination, fallback |-> fallback,
     s3_bucket |-> s3b, s3_endpoint |-> s3e, s3_keys |-> s3k,
     gcp_bucket |-> gb, gcp_env_bucket |-> geb, gcp_sa_key |-> gk]

DestLocal == DestInput({}, None, None, FALSE, FALSE, FALSE, FALSE, FALSE, FALSE)

DestCases ==
    {DestInput({"s3", "gcp"}, None, None, TRUE, TRUE, TRUE, TRUE, TRUE, TRUE),
     DestInput({"s3", "gcp"}, None, None, FALSE, FALSE, FALSE, TRUE, TRUE, TRUE),
     DestInput({"s3"}, None, None, TRUE, FALSE, TRUE, FALSE, FALSE, FALSE),
     DestInput({}, "gcp", "error", FALSE, FALSE, FALSE, FALSE, FALSE, FALSE),
     DestInput({"gcp"}, "local", "s3", TRUE, TRUE, TRUE, FALSE, FALSE, FALSE),
     DestInput({"local", "s3"}, None, None, TRUE, TRUE, TRUE, FALSE, FALSE, FALSE)}

\* format overrides and format settings
FormatInput(vf, flac, af, cvf, cvef, caef, caf) ==
    [video_format |-> vf, flac |-> flac, audio_format |-> af,
     cfg_video_format |-> cvf, video_enabled_formats |-> cvef,
     audio_enabled_formats |-> caef, cfg_audio_format |-> caf]

FormatCases ==
    {FormatInput(vf, flac, af, cvf, cvef, caef, caf) :
        vf \in {None, "mkv"}, flac \in BOOLEAN, af \in {None, "opus"},
        cvf \in {"", "mp4"}, cvef \in SeqsUpTo(VideoNames, MaxVideoFormats),
        caef \in SeqsUpTo(AudioNames, MaxAudioFormats), caf \in {None, "flac"}}

FormatSimple ==
    {FormatInput(None, FALSE, None, "", <<>>, caef, None) :
        caef \in {<<"mp3">>, <<"mp3", "flac">>}}

MakeJob(f, d, url) ==
    [url |-> url, video_format |-> f.video_format, flac |-> f.flac,
     audio_format |-> f.audio_format, flags |-> d.flags]

MakeCfg(f, d, output_dir) ==
    [output_dir |-> output_dir,
     video_format |-> f.cfg_video_format,
     video_enabled_formats |-> f.video_enabled_formats,
     audio_enabled_formats |-> f.audio_enabled_formats,
     audio_format |-> f.cfg_audio_format,
     flac_override |-> None,
     audio_format_selector |-> None,
     destination |-> d.destination, fallback |-> d.fallback,
     s3_bucket |-> d.s3_bucket, s3_endpoint |-> d.s3_endpoint, s3_keys |-> d.s3_keys,
     gcp_bucket |-> d.gcp_bucket, gcp_env_bucket |-> d.gcp_env_bucket,
     gcp_sa_key |-> d.gcp_sa_key]

InitDistill ==
    /\ \E f \in FormatCases \cup FormatSimple,
          d \in {DestLocal} \cup DestCases,
          url \in UrlInputs, output_dir \in {None, "./downloads"} :
        /\ (f \in FormatSimple \/ d = DestLocal)
        /\ job = MakeJob(f, d, url)
        /\ cfg = MakeCfg(f, d, output_dir)
    /\ dpc = "start"
    /\ formats_to_produce = <<>>
    /\ upload_to_local = FALSE /\ upload_to_s3 = FALSE /\ upload_to_gcp = FALSE
    /\ warnings = {}
    /\ is_video_run = FALSE
    /\ fidx = 0
    /\ seal_items = <<>>
    /\ fractured_entries = <<>>
    /\ calls = <<>>
    /\ exit_code = -1
    /\ BatchIdle
    /\ OptsIdle
    /\ DestIdle
    /\ FindIdle
    /\ CmdIdle

\* variant: the inscription and the uploads are not guarded by the download's
\* success
IterationCalls_Unguarded(engine_calls, success, artifact_calls) ==
    engine_calls \o artifact_calls

\* distill.py 322-401: the calls of one loop iteration in the order made; the
\* inscription and the uploads only after a successful download (331-363
\* 'continue' on failure)
IterationCalls(engine_calls, success, artifact_calls) ==
    engine_calls \o (IF success THEN artifact_calls ELSE <<>>)

\* raise typer.Exit(code)
DistillExit(code) ==
    /\ dpc' = "exited"
    /\ exit_code' = code

\* distill.py 85-300: EULA, required configuration, URL check, metadata,
\* format and destination resolution, uploader setup
DistillPrepare ==
    /\ dpc = "start"
    /\ \E eula_ok \in BOOLEAN, gcp_wizard \in BOOLEAN, s3_wizard \in BOOLEAN :
        LET dest == ResolveDestinations(job, cfg)
            gcp_setup_fails == dest.gcp /\ ~GcpUploaderConfigured(cfg) /\ ~gcp_wizard
            s3_setup_fails == dest.s3 /\ ~S3UploaderConfigured(cfg) /\ ~s3_wizard
        IN IF ~eula_ok \/ ~ValidateRequired(cfg) \/ ~IsValidUrl(job.url)
           THEN /\ DistillExit(1)
                /\ UNCHANGED <<formats_to_produce, upload_to_local, upload_to_s3,
                               upload_to_gcp, warnings, is_video_run, calls>>
           ELSE /\ calls' = <<[op |-> "extract_metadata", arg |-> job.url, res |-> "info"]>>
                /\ formats_to_produce' = ResolveFormats(job, cfg)
                /\ upload_to_local' = dest.local
                /\ upload_to_s3' = dest.s3
                /\ upload_to_gcp' = dest.gcp
                /\ warnings' = dest.warnings
                /\ IF gcp_setup_fails \/ s3_setup_fails
                   THEN DistillExit(1) /\ UNCHANGED is_video_run
                   ELSE /\ is_video_run' = IsVideoRun(job)
                        /\ dpc' = "loop"
                        /\ UNCHANGED exit_code
    /\ UNCHANGED <<job, cfg, fidx, seal_items, fractured_entries>>

\* distill.py 305-405: one iteration of the loop over formats_to_produce
DistillFormat ==
    /\ dpc = "loop"
    /\ fidx < Len(formats_to_produce)
    /\ \E r1 \in EngineResults, r2 \in EngineResults, ins \in BOOLEAN,
          gup \in UploadResults, sup \in UploadResults :
        LET fmt == formats_to_produce[fidx + 1]
            ext == LoopExt(is_video_run, fmt)
            d1 == Download(cfg, env_batch,
                           IF is_video_run THEN None ELSE fmt,
                           IF is_video_run THEN fmt ELSE None,
                           fmt = "flac" /\ job.flac, r1)
            retry == ~d1.success /\ VideoFallbackStarts(is_video_run, d1.error_msg)
            audio_fmt == CfgGet(cfg.audio_format, "mp3")
            d2 == Download(cfg, env_batch, audio_fmt, None, FALSE, r2)
            final == IF retry THEN d2 ELSE d1
            final_ext == IF retry /\ d2.success THEN AudioExt(audio_fmt) ELSE ext
            engine_calls == IF retry THEN d1.engine_calls \o d2.engine_calls
                            ELSE d1.engine_calls
            recs == Records(final.success, retry, final_ext,
                            ThisDisplay(final.file_path, upload_to_gcp, gup, upload_to_s3, sup),
                            NormalizeFractureCause(final.error_msg))
        IN \* results of calls that are not made are not drawn
           /\ (~retry => r2 = "ok")
           /\ (~final.success => ins /\ gup = "ok" /\ sup = "ok")
           /\ (~upload_to_gcp => gup = "ok")
           /\ (~upload_to_s3 => sup = "ok")
           /\ is_video_run' = IF retry /\ d2.success THEN FALSE ELSE is_video_run
           /\ calls' = calls \o IterationCalls(engine_calls, final.success,
                                ArtifactCalls(final.file_path, job.url, ins, upload_to_gcp,
                                              gup, upload_to_s3, sup))
           /\ seal_items' = seal_items \o recs.seal
           /\ fractured_entries' = fractured_entries \o recs.fracture
    /\ fidx' = fidx + 1
    /\ UNCHANGED <<job, cfg, dpc, formats_to_produce, upload_to_local, upload_to_s3,
                   upload_to_gcp, warnings, exit_code>>

\* distill.py 407-417: the seal, the fractured box and the exit code
DistillFinish ==
    /\ dpc = "loop"
    /\ fidx = Len(formats_to_produce)
    /\ dpc' = "done"
    /\ exit_code' = FinalExitCode(seal_items, fractured_entries)
    /\ UNCHANGED <<job, cfg, formats_to_produce, upload_to_local, upload_to_s3,
                   upload_to_gcp, warnings, is_video_run, fidx, seal_items,
                   fractured_entries, calls>>

NextDistill ==
    \/ DistillPrepare /\ UNCHANGED <<bvars, ovars, rvars, fvars, cvars>>
    \/ DistillFormat /\ UNCHANGED <<bvars, ovars, rvars, fvars, cvars>>
    \/ DistillFinish /\ UNCHANGED <<bvars, ovars, rvars, fvars, cvars>>

SpecDistill == InitDistill /\ [][NextDistill]_vars

\* ------------------------------------------------------------------------
\* Properties of the single-job pipeline
\* ------------------------------------------------------------------------
DownloadCalls == {k \in DOMAIN calls : calls[k].op = "download"}

SealKeys == {seal_items[k][1] : k \in DOMAIN seal_items}

FractureKeys == {fractured_entries[k][1] : k \in DOMAIN fractured_entries}

\* C5: a single-job run ends with a non-zero exit code if and only if it
\* produced zero SealItems; with at least one SealItem it is an overall
\* success however many FracturedEntries it has.
C5_ExitCodeIffNoSeal ==
    dpc \in {"done", "exited"} => (exit_code # 0 <=> seal_items = <<>>)

C5_Witness ==
    /\ dpc = "done"
    /\ exit_code = 0
    /\ Len(seal_items) = 1
    /\ Len(fractured_entries) >= 1

\* C6: after the loop every requested format has exactly one record, a
\* SealItem if its download (possibly through the fallback) succeeded and a
\* FracturedEntry otherwise, and a failed format does not stop the loop.
C6_OneRecordPerFormat ==
    /\ dpc \in {"loop", "done"} =>
        /\ Len(seal_items) + Len(fractured_entries) = fidx
        /\ Len(seal_items) = Cardinality({k \in DownloadCalls : calls[k].res = "ok"})
    /\ dpc = "done" =>
        /\ fidx = Len(formats_to_produce)
        /\ Len(seal_items) + Len(fractured_entries) = Len(formats_to_produce)

C6_Witness ==
    /\ dpc = "done"
    /\ Len(formats_to_produce) = 2
    /\ Len(fractured_entries) = 1
    /\ Len(seal_items) = 1
    /\ calls[2].op = "download" /\ calls[2].res = "ENetwork"
    /\ calls[3].op = "download" /\ calls[3].res = "ok"

\* the one default audio format
DefaultAudio(c) == CfgGet(c.audio_format, "mp3")

AudioKey(fmt) == IF fmt = "flac" THEN "flac" ELSE AudioExt(fmt)

\* C8: when a video-format override is present but video is not enabled in
\* the config, every format of the job is requested from the engine as that
\* audio format and is recorded under its audio extension.
C8_DisabledVideoOverrideIsAudio ==
    (dpc \in {"loop", "done"} /\ Truthy(job.video_format) /\ ~VideoEnabledInConfig(cfg)) =>
        /\ \A k \in DownloadCalls :
              /\ calls[k].arg.kind = "audio"
              /\ \E n \in DOMAIN formats_to_produce :
                    calls[k].arg.audioformat = formats_to_produce[n]
        /\ SealKeys \cup FractureKeys
              \subseteq {AudioKey(formats_to_produce[n]) : n \in DOMAIN formats_to_produce}

\* C9: with no per-run format override and video enabled in the config, each
\* enabled video format is downloaded with the video options and recorded
\* under its video extension.
C9_ConfigVideoFormatsAreVideo ==
    (/\ dpc = "done"
     /\ ~Truthy(job.video_format) /\ ~job.flac /\ ~Truthy(job.audio_format)
     /\ VideoEnabledInConfig(cfg)) =>
        \A n \in DOMAIN cfg.video_enabled_formats :
            LET v == cfg.video_enabled_formats[n]
            IN /\ \E k \in DownloadCalls :
                    /\ calls[k].arg.kind = "video"
                    /\ calls[k].arg.merge_output_format = VideoSelector(v)[2]
               /\ VideoExt(v) \in SealKeys \cup FractureKeys

\* ------------------------------------------------------------------------
\* One call of MediaDownloader._build_ydl_opts, for every config and
\* argument combination
\* ------------------------------------------------------------------------
OptsConfigs ==
    [video_enabled : {None, "false", "true"},
     video_format : {None, "", " ", "mp4"},
     video_enabled_formats : SeqsUpTo(VideoNames, MaxVideoFormats),
     audio_format : {None, "flac"},
     flac_override : {None, "true"},
     audio_format_selector : {None, "ba"}]

OptsArgs ==
    [cfg : OptsConfigs,
     env : {None, "1"},
     audio_format : {None, "mp3", "opus"},
     video_format : {None, "mp4", "mkv"},
     flac_flag : BOOLEAN,
     video_enabled_override : BOOLEAN]

InitOpts ==
    /\ opts_args \in OptsArgs
    /\ opts_result = <<>>
    /\ BatchIdle
    /\ DistillIdle
    /\ DestIdle
    /\ FindIdle
    /\ CmdIdle

\* downloader.py 85-92: the signature has no video_enabled_override
\* parameter, so a call that passes it raises TypeError
CallBuildYdlOpts(a) ==
    IF a.video_enabled_override
    THEN [raised |-> "TypeError", opts |-> [kind |-> "none"]]
    ELSE [raised |-> None,
          opts |-> BuildYdlOpts(a.cfg, a.env, a.audio_format, a.video_format, a.flac_flag)]

BuildOptsCall ==
    /\ opts_result = <<>>
    /\ opts_result' = <<CallBuildYdlOpts(opts_args)>>
    /\ UNCHANGED opts_args

NextOpts ==
    \/ BuildOptsCall /\ UNCHANGED <<bvars, dvars, rvars, fvars, cvars>>

SpecOpts == InitOpts /\ [][NextOpts]_vars

\* C10: _build_ydl_opts builds video options (merge_output_format set, no
\* audio extraction post-processor) for a given video_format only when video
\* is enabled (media.video.enabled true, or the runtime override passed);
\* when media.video.enabled is false or absent it builds audio-extraction
\* options whatever media.video.format and enabled_formats hold.
C10_VideoOptionsOnlyWhenEnabled ==
    \A k \in DOMAIN opts_result :
        LET r == opts_result[k]
            enabled == opts_args.cfg.video_enabled = "true" \/ opts_args.video_enabled_override
        IN /\ (r.raised = None /\ r.opts.kind = "video")
                => (opts_args.video_format # None /\ enabled)
           /\ ~enabled =>
                /\ r.raised = None
                /\ r.opts.kind = "audio"
                /\ r.opts.merge_output_format = None
                /\ r.opts.extractaudio
                /\ \E n \in DOMAIN r.opts.postprocessors :
                      r.opts.postprocessors[n].key = "FFmpegExtractAudio"

\* ------------------------------------------------------------------------
\* One evaluation of the destination resolution of distill(), for every
\* combination of flags, storage settings and configured providers
\* ------------------------------------------------------------------------
DestinationNames == {"local", "s3", "gcp"}

\* values storage.destination can hold in config.toml (None: key absent)
StoredDestinations == {None, "local", "s3", "gcp", "ftp"}

\* values storage.fallback can hold in config.toml (None: key absent)
StoredFallbacks == {None, "local", "s3", "gcp", "error", "ftp"}

DestArgs ==
    [job : [flags : SUBSET DestinationNames],
     cfg : [destination : StoredDestinations,
            fallback : StoredFallbacks,
            s3_bucket : BOOLEAN, s3_keys : BOOLEAN,
            gcp_bucket : BOOLEAN, gcp_sa_key : BOOLEAN]]

InitDest ==
    /\ dest_args \in DestArgs
    /\ dest_result = <<>>
    /\ BatchIdle
    /\ DistillIdle
    /\ OptsIdle
    /\ FindIdle
    /\ CmdIdle

ResolveCall ==
    /\ dest_result = <<>>
    /\ dest_result' = <<ResolveDestinations(dest_args.job, dest_args.cfg)>>
    /\ UNCHANGED dest_args

NextDest ==
    \/ ResolveCall /\ UNCHANGED <<bvars, dvars, ovars, fvars, cvars>>

SpecDest == InitDest /\ [][NextDest]_vars

\* the destinations a resolution result holds
DestinationSet(r) ==
    {d \in DestinationNames :
        \/ d = "local" /\ r.local
        \/ d = "s3" /\ r.s3
        \/ d = "gcp" /\ r.gcp}

\* Local always counts as configured
DestConfigured(c, d) ==
    \/ d = "local"
    \/ d = "s3" /\ IsS3Configured(c)
    \/ d = "gcp" /\ IsGcpConfigured(c)

\* C11: for every combination of destination flags, persisted default,
\* persisted fallback and configured state of S3 and GCP, the resolved
\* destination set holds between 1 and 3 destinations: it is never empty.
C11_ResolvedSetNeverEmpty ==
    \A k \in DOMAIN dest_result :
        Cardinality(DestinationSet(dest_result[k])) \in 1..3

\* C12: when more than one destination flag is set, the resolved set is
\* exactly the flagged destinations that are configured (Local always counts
\* as configured); each flagged but unconfigured remote is dropped with a
\* warning and no fallback substitution is applied.
C12_MultiFlagKeepsConfigured ==
    \A k \in DOMAIN dest_result :
        LET flags == dest_args.job.flags
            c == dest_args.cfg
            r == dest_result[k]
        IN Cardinality(flags) > 1 =>
            /\ DestinationSet(r) = {d \in flags : DestConfigured(c, d)}
            /\ r.warnings = {d \in flags : ~DestConfigured(c, d)}
            /\ (flags = {"s3", "gcp"} /\ IsS3Configured(c) /\ IsGcpConfigured(c)
                    => DestinationSet(r) = {"s3", "gcp"})
            /\ (flags = {"s3", "gcp"} /\ ~IsS3Configured(c) /\ IsGcpConfigured(c)
                    => DestinationSet(r) = {"gcp"} /\ r.warnings = {"s3"})

\* flags {s3, gcp} with only GCP configured and a fallback of local persisted:
\* S3 is dropped with a warning and local is not substituted
C12_Witness ==
    /\ dest_result # <<>>
    /\ dest_args.job.flags = {"s3", "gcp"}
    /\ ~IsS3Configured(dest_args.cfg) /\ IsGcpConfigured(dest_args.cfg)
    /\ dest_args.cfg.fallback = "local"
    /\ DestinationSet(dest_result[1]) = {"gcp"}
    /\ dest_result[1].warnings = {"s3"}

\* C13: with exactly one destination flag the primary is that flag, with
\* none it is the persisted default (Local when no valid default is
\* persisted); a primary of S3 or GCP that is not configured is replaced by
\* the persisted fallback destination, and by Local when the fallback is the
\* "error" sentinel; the result is the singleton set holding the resolved
\* primary.
C13_SingletonResolvedPrimary ==
    \A k \in DOMAIN dest_result :
        LET flags == dest_args.job.flags
            c == dest_args.cfg
            r == dest_result[k]
            primary == IF flags # {} THEN CHOOSE d \in flags : TRUE
                       ELSE IF c.destination \in DestinationNames THEN c.destination
                       ELSE "local"
            persisted_fallback == IF c.fallback = None THEN "local" ELSE c.fallback
            resolved == IF DestConfigured(c, primary) THEN primary
                        ELSE IF persisted_fallback = "error" THEN "local"
                        ELSE persisted_fallback
        IN Cardinality(flags) <= 1 =>
            /\ Cardinality(DestinationSet(r)) = 1
            /\ resolved \in DestinationSet(r)

\* C28: every remote destination (S3, GCP) in the resolved destination set
\* is configured according to ConfigManager: in the single-flag and no-flag
\* branches the substituted fallback is itself Local or a configured remote,
\* and a fallback value outside {local, s3, gcp, error} resolves to Local.
C28_ResolvedRemotesConfigured ==
    \A k \in DOMAIN dest_result :
        LET flags == dest_args.job.flags
            c == dest_args.cfg
            r == dest_result[k]
            primary == IF flags # {} THEN CHOOSE d \in flags : TRUE
                       ELSE IF c.destination \in DestinationNames THEN c.destination
                       ELSE "local"
        IN /\ \A d \in DestinationSet(r) : DestConfigured(c, d)
           /\ (/\ Cardinality(flags) <= 1
               /\ ~DestConfigured(c, primary)
               /\ c.fallback \notin {None, "local", "s3", "gcp", "error"})
                  => DestinationSet(r) = {"local"}

\* ------------------------------------------------------------------------
\* Fallbacks, inscription and uploads of the single-job pipeline
\* ------------------------------------------------------------------------
\* the raw engine errors that carry the access-blocked signature
BlockedErrors == {e \in RawErrors : {"403", "forbidden", "video data"} \cap Tokens(e) # {}}

\* the download calls that are the audio-only retry of a blocked video download
AudioRetries ==
    {k \in DownloadCalls :
        /\ k - 1 \in DownloadCalls
        /\ calls[k - 1].video_format # None
        /\ calls[k - 1].res \in BlockedErrors}

\* the number of successful engine downloads among the first k calls
OkDownloadsUpTo(k) == Cardinality({n \in DownloadCalls : n <= k /\ calls[n].res = "ok"})

\* C14: when a video format's download fails with a provider-blocked
\* signature and the single audio-only retry (persisted default audio
\* format) succeeds, the format is recorded as a success whose extension is
\* the extension of that audio format - for every default audio format,
\* flac and mp3 included - and not the requested video extension.
C14_AudioFallbackExtension ==
    \A k \in AudioRetries :
        (calls[k].res = "ok" /\ OkDownloadsUpTo(k) <= Len(seal_items)) =>
            LET seal == seal_items[OkDownloadsUpTo(k)]
            IN /\ seal[1] = LoopExt(FALSE, DefaultAudio(cfg))
               /\ seal[1] # VideoExt(calls[k - 1].video_format)

\* downloader.py 383: the alternate stream identifiers, in the order tried
FallbackFormats == <<"140", "139", "251">>

\* a download call made by the alternate-format chain
IsChainCall(call) ==
    /\ call.op = "download"
    /\ \E m \in DOMAIN FallbackFormats : call.arg.format = FallbackFormats[m]

\* the first attempts of audio downloads that failed as access-blocked
BlockedAudioAttempts ==
    {k \in DownloadCalls :
        /\ calls[k].arg.kind = "audio"
        /\ ~IsChainCall(calls[k])
        /\ {"403", "forbidden"} \cap Tokens(calls[k].res) # {}}

\* C15: when an audio format's first download fails as access-blocked,
\* download() tries the stream identifiers 140, 139, 251 in that order,
\* stops at the first one that succeeds (later ones are not tried) and
\* fails only if every identifier of the chain fails.
C15_ChainInOrderUntilSuccess ==
    \A k \in BlockedAudioAttempts :
        \E n \in DOMAIN FallbackFormats :
            /\ k + n \in DOMAIN calls
            /\ \A m \in 1..n :
                  /\ calls[k + m].op = "download"
                  /\ calls[k + m].arg.format = FallbackFormats[m]
            /\ \A m \in 1..(n - 1) : calls[k + m].res # "ok"
            /\ (n < Len(FallbackFormats) => calls[k + n].res = "ok")
            /\ (k + n + 1 \in DOMAIN calls => ~IsChainCall(calls[k + n + 1]))
            /\ (calls[k + n].res = "ok" => OkDownloadsUpTo(k + n) <= Len(seal_items))

\* the first engine attempt of each format: neither the audio-only retry of
\* a video format nor a call of the alternate-format chain
FirstAttempts ==
    {k \in DownloadCalls : k \notin AudioRetries /\ ~IsChainCall(calls[k])}

\* the call after k belongs to the fallback of the format attempted at k
FallbackFollows(k) ==
    /\ k + 1 \in DownloadCalls
    /\ \/ k + 1 \in AudioRetries
       \/ IsChainCall(calls[k + 1])

\* C16: the fallback for a format's kind runs if and only if the first
\* attempt's failure matches the access-blocked signature (HTTP 403,
\* forbidden, or the engine's no-stream-data signature), for audio and for
\* video formats alike; any other failure produces a failed outcome after
\* exactly one engine download attempt.
C16_FallbackIffBlocked ==
    /\ \A k \in FirstAttempts :
          calls[k].res # "ok" => (FallbackFollows(k) <=> calls[k].res \in BlockedErrors)
    /\ Cardinality({k \in FirstAttempts : calls[k].res \notin BlockedErrors \cup {"ok"}})
          <= Len(fractured_entries)

\* the positions in the call log of the calls of one kind
CallsOf(op) == {k \in DOMAIN calls : calls[k].op = op}

\* the upload calls made for the artifact that the download at k produced
UploadsOf(op, k) ==
    {n \in CallsOf(op) :
        /\ n > k
        /\ calls[n].arg = Artifact(calls[k].arg)
        /\ \A d \in DownloadCalls : ~(k < d /\ d < n)}

\* C17: when both S3 and GCP are in the resolved destination set, every
\* successfully downloaded artifact is offered to both uploaders: the second
\* uploader is invoked whether the first upload succeeded or failed, once
\* per artifact.
C17_BothUploadersInvoked ==
    (upload_to_s3 /\ upload_to_gcp) =>
        \A k \in DownloadCalls :
            calls[k].res = "ok" =>
                /\ Cardinality(UploadsOf("upload_gcp", k)) = 1
                /\ Cardinality(UploadsOf("upload_s3", k)) = 1
                /\ \A g \in UploadsOf("upload_gcp", k) :
                      /\ g + 1 \in DOMAIN calls
                      /\ calls[g + 1].op = "upload_s3"
                      /\ calls[g + 1].arg = calls[g].arg

\* both remotes resolved, one artifact's GCP upload succeeded and another's
\* failed, and the S3 upload followed both times
C17_Witness ==
    /\ upload_to_s3 /\ upload_to_gcp
    /\ \E g \in CallsOf("upload_gcp") :
          calls[g].res = "ok" /\ calls[g + 1].op = "upload_s3"
    /\ \E g \in CallsOf("upload_gcp") :
          calls[g].res = "fail" /\ calls[g + 1].op = "upload_s3"

\* the successful remote uploads of the artifact that the download at k produced
OkUploadsOf(k) ==
    {n \in UploadsOf("upload_gcp", k) \cup UploadsOf("upload_s3", k) : calls[n].res = "ok"}

\* the destination an upload call went to
RemoteOf(call) == IF call.op = "upload_gcp" THEN "gcp" ELSE "s3"

\* C18: for every combination of upload outcomes, the location shown in a
\* SealItem is the one returned by the first remote upload that succeeded
\* (in attempt order); it is the local artifact path only when no remote
\* upload succeeded or no remote destination was resolved.
C18_DisplayFirstSuccessfulRemote ==
    \A k \in DownloadCalls :
        (calls[k].res = "ok" /\ OkDownloadsUpTo(k) <= Len(seal_items)) =>
            LET shown == seal_items[OkDownloadsUpTo(k)][2]
                oks == OkUploadsOf(k)
            IN /\ shown.file = Artifact(calls[k].arg)
               /\ IF oks = {} THEN shown.where = "local"
                  ELSE LET first == CHOOSE n \in oks : \A o \in oks : n <= o
                       IN shown.where = RemoteOf(calls[first])

\* the downloads whose artifact had at least one failed upload
FailedUploadDownloads ==
    {k \in DownloadCalls :
        /\ calls[k].res = "ok"
        /\ \E n \in UploadsOf("upload_gcp", k) \cup UploadsOf("upload_s3", k) :
              calls[n].res = "fail"}

\* C19: a failed upload (to S3, to GCP, or to both) never turns a
\* successfully downloaded format into a FracturedEntry and never by itself
\* makes the job exit non-zero: the format still gets a SealItem, showing the
\* local path if no upload succeeded.
C19_UploadFailureNeverFractures ==
    /\ \A k \in FailedUploadDownloads :
          /\ OkDownloadsUpTo(k) <= Len(seal_items)
          /\ seal_items[OkDownloadsUpTo(k)][2].file = Artifact(calls[k].arg)
          /\ OkUploadsOf(k) = {} => seal_items[OkDownloadsUpTo(k)][2].where = "local"
    /\ dpc \in {"loop", "done"} =>
          Len(fractured_entries) = fidx - OkDownloadsUpTo(Len(calls))
    /\ (dpc = "done" /\ FailedUploadDownloads # {}) => exit_code = 0

\* both uploads of the only format failed: it is sealed with the local path
\* and the job ends with exit code 0
C19_Witness ==
    /\ dpc = "done"
    /\ exit_code = 0
    /\ fractured_entries = <<>>
    /\ Len(seal_items) = 1
    /\ seal_items[1][2].where = "local"
    /\ \E g \in CallsOf("upload_gcp") : calls[g].res = "fail"
    /\ \E u \in CallsOf("upload_s3") : calls[u].res = "fail"

\* the inscriber calls made for the artifact that the download at k produced
InscriptionsOf(k) ==
    {n \in CallsOf("inscribe") :
        /\ n > k
        /\ \A d \in DownloadCalls : ~(k < d /\ d < n)}

\* C20: for every successful download with an artifact path, the inscriber
\* (write_source_url_to_metadata) is called once with (artifact path, source
\* URL) before any upload of that artifact, and its failure never changes
\* the job's outcome: the format is still uploaded and sealed.
C20_InscribeOnceBeforeUploads ==
    /\ \A k \in DownloadCalls :
          IF calls[k].res = "ok"
          THEN /\ InscriptionsOf(k) = {k + 1}
               /\ calls[k + 1].arg = <<Artifact(calls[k].arg), job.url>>
               /\ \A n \in UploadsOf("upload_gcp", k) \cup UploadsOf("upload_s3", k) : n > k + 1
               /\ Cardinality(UploadsOf("upload_gcp", k)) = IF upload_to_gcp THEN 1 ELSE 0
               /\ Cardinality(UploadsOf("upload_s3", k)) = IF upload_to_s3 THEN 1 ELSE 0
               /\ OkDownloadsUpTo(k) <= Len(seal_items)
               /\ seal_items[OkDownloadsUpTo(k)][2].file = Artifact(calls[k].arg)
          ELSE InscriptionsOf(k) = {}
    /\ (dpc = "done" /\ CallsOf("inscribe") # {}) => exit_code = 0

\* the inscription of the only artifact failed; the artifact was then
\* uploaded and sealed with its remote location, and the job ended with 0
C20_Witness ==
    /\ dpc = "done"
    /\ exit_code = 0
    /\ Len(seal_items) = 1
    /\ seal_items[1][2].where = "s3"
    /\ \E n \in CallsOf("inscribe") :
          /\ ~calls[n].res
          /\ n + 1 \in CallsOf("upload_s3")
          /\ calls[n + 1].res = "ok"

\* ------------------------------------------------------------------------
\* Fatal errors, ordering, bounds and naming of the single-job pipeline
\* ------------------------------------------------------------------------
\* the calls that go to the network
NetworkCalls ==
    {k \in DOMAIN calls :
        calls[k].op \in {"extract_metadata", "download", "upload_gcp", "upload_s3"}}

\* C21: a job that has a configuration error (paths.output_dir missing, or a
\* selected remote destination whose uploader is not configured and cannot
\* be set up) or a malformed URL exits non-zero before any network call: no
\* extract_metadata, download or upload happens in that job.
C21_FatalBeforeNetwork ==
    /\ (~ValidateRequired(cfg) \/ ~IsValidUrl(job.url)) => dpc \in {"start", "exited"}
    /\ dpc = "exited" => (exit_code # 0 /\ NetworkCalls = {})

\* ------------------------------------------------------------------------
\* One call of MediaDownloader._find_downloaded_file, for every state of the
\* files in the output directory
\* ------------------------------------------------------------------------
MaxReported == 1

\* downloader.py 484: a scanned file must be larger than this many bytes
MinScanSize == 1024

\* downloader.py 486: a scanned file must be younger than this many seconds
MaxScanAge == 300

\* time.time() at the call
ScanNow == 1000

\* downloader.py 457
all_extensions == <<"mp3", "flac", "aac", "m4a", "opus", "wav", "mp4", "mkv", "webm">>

\* base_path.with_suffix(ext) for the output stem of the call
WithSuffix(ext) == [stem |-> "title", ext |-> ext]

\* the files the output directory can hold: three with the output stem and
\* one unrelated file
DirFiles == {WithSuffix("mp3"), WithSuffix("flac"), WithSuffix("ogg"),
             [stem |-> "other", ext |-> "mp3"]}

Absent == [exists |-> FALSE, size |-> 0, mtime |-> 0]

FileStates ==
    {Absent} \cup [exists : {TRUE}, size : {0, 500, 2000}, mtime : {100, 900}]

FindArgs ==
    [fs : [DirFiles -> FileStates],
     downloaded_files : SeqsUpTo(DirFiles, MaxReported),
     expected_ext : {None, "mp3", "flac", "ogg"}]

\* Path(p).exists() and Path(p).stat().st_size > 0
ExistsNonEmpty(fs, p) == fs[p].exists /\ fs[p].size > 0

\* downloader.py 450-453: the last reported path that exists and is not empty
FromProgressHook(fs, downloaded_files) ==
    LET good == {k \in DOMAIN downloaded_files : ExistsNonEmpty(fs, downloaded_files[k])}
    IN IF good = {} THEN <<>>
       ELSE <<downloaded_files[CHOOSE k \in good : \A n \in good : n <= k]>>

\* the elements of a sequence that differ from x, in order
RECURSIVE Without(_, _)
Without(seq, x) ==
    IF seq = <<>> THEN <<>>
    ELSE IF Head(seq) = x THEN Without(Tail(seq), x)
    ELSE <<Head(seq)>> \o Without(Tail(seq), x)

\* the elements of a sequence, as a set
Elems(seq) == {seq[k] : k \in DOMAIN seq}

\* downloader.py 458-461
PossibleExtensions(expected_ext) ==
    IF Truthy(expected_ext) /\ expected_ext \in Elems(all_extensions)
    THEN <<expected_ext>> \o Without(all_extensions, expected_ext)
    ELSE all_extensions

\* downloader.py 463-467: the first extension of the list whose file exists
FromExpectedPath(fs, extensions) ==
    LET good == {k \in DOMAIN extensions :
                    WithSuffix(extensions[k]) \in DOMAIN fs
                    /\ ExistsNonEmpty(fs, WithSuffix(extensions[k]))}
    IN IF good = {} THEN <<>>
       ELSE <<WithSuffix(extensions[CHOOSE k \in good : \A n \in good : k <= n])>>

\* downloader.py 476-489: the files of the directory scan
ScanCandidates(fs) ==
    {p \in DOMAIN fs :
        /\ fs[p].exists
        /\ fs[p].size > MinScanSize
        /\ ScanNow - fs[p].mtime < MaxScanAge}

\* downloader.py 491-494: the candidates with the latest mtime; the sort is
\* stable over the directory order, which the file system chooses
FromDirectoryScan(fs) ==
    {p \in ScanCandidates(fs) : \A q \in ScanCandidates(fs) : fs[q].mtime <= fs[p].mtime}

\* _find_downloaded_file: the set of paths the call can return, {None} for None
FindDownloadedFile(fs, downloaded_files, expected_ext) ==
    LET hook == FromProgressHook(fs, downloaded_files)
        probe == FromExpectedPath(fs, PossibleExtensions(expected_ext))
    IN IF hook # <<>> THEN {hook}
       ELSE IF probe # <<>> THEN {probe}
       ELSE IF FromDirectoryScan(fs) # {} THEN {<<p>> : p \in FromDirectoryScan(fs)}
       ELSE {<<>>}

InitFind ==
    /\ find_args \in FindArgs
    /\ find_result = <<>>
    /\ BatchIdle
    /\ DistillIdle
    /\ OptsIdle
    /\ DestIdle
    /\ CmdIdle

\* find_result holds <<>> for None and <<path>> for a path
FindCall ==
    /\ find_result = <<>>
    /\ \E r \in FindDownloadedFile(find_args.fs, find_args.downloaded_files,
                                   find_args.expected_ext) :
          find_result' = <<r>>
    /\ UNCHANGED find_args

NextFind ==
    \/ FindCall /\ UNCHANGED <<bvars, dvars, ovars, rvars, cvars>>

SpecFind == InitFind /\ [][NextFind]_vars

\* the candidates of one priority level, as the claim lists them
ReportedLevel(a) ==
    LET good == {k \in DOMAIN a.downloaded_files :
                    ExistsNonEmpty(a.fs, a.downloaded_files[k])}
    IN {a.downloaded_files[k] : k \in {n \in good : \A o \in good : o <= n}}

ExpectedLevel(a) ==
    {p \in DirFiles : /\ a.expected_ext # None
                      /\ p = WithSuffix(a.expected_ext)
                      /\ ExistsNonEmpty(a.fs, p)}

ListLevel(a) ==
    LET good == {k \in DOMAIN all_extensions :
                    /\ WithSuffix(all_extensions[k]) \in DirFiles
                    /\ ExistsNonEmpty(a.fs, WithSuffix(all_extensions[k]))}
    IN {WithSuffix(all_extensions[k]) : k \in {n \in good : \A o \in good : n <= o}}

ScanLevel(a) ==
    LET ok == {p \in DirFiles : /\ a.fs[p].exists
                                /\ a.fs[p].size > 1024
                                /\ ScanNow - a.fs[p].mtime < 300}
    IN {p \in ok : \A q \in ok : a.fs[q].mtime <= a.fs[p].mtime}

\* C22: _find_downloaded_file returns the first existing non-empty candidate
\* in this priority: the most recently engine-reported path; the output stem
\* with the expected extension; the output stem with each extension of the
\* fixed list in list order; the most recently modified file of the output
\* directory under 5 minutes old and over 1 KB; None only if all of these
\* fail. When files with the expected and with another extension both
\* exist, the expected-extension file is returned.
C22_FindPriority ==
    \A k \in DOMAIN find_result :
        LET a == find_args
            r == find_result[k]
            level == IF ReportedLevel(a) # {} THEN ReportedLevel(a)
                     ELSE IF ExpectedLevel(a) # {} THEN ExpectedLevel(a)
                     ELSE IF ListLevel(a) # {} THEN ListLevel(a)
                     ELSE ScanLevel(a)
        IN IF level = {} THEN r = <<>>
           ELSE r # <<>> /\ r[1] \in level

\* ------------------------------------------------------------------------
\* The batch command: batch(), _run_batch_flow, _run_batch_execution and the
\* process exit code
\* ------------------------------------------------------------------------
CmdInputs ==
    [tty : BOOLEAN,                 \* is_tty()
     prereq : BOOLEAN,              \* _check_prerequisites()
     inquirer : BOOLEAN,            \* InquirerPy could be imported
     select : {"files", "paste", "playlist", "cancel"},
     collect : {"list", "cancel"},  \* the URL collector returns or is canceled
     urls : SeqsUpTo(UrlNames, MaxUrls),
     overrides : {"ok", "cancel"},
     env : EnvValues]

\* batch.py 46-100: the exit code raised before _run_batch_execution, or
\* <<>> when the flow reaches it
CmdPrologue(c) ==
    IF ~c.tty THEN <<1>>
    ELSE IF ~c.prereq THEN <<1>>
    ELSE IF ~c.inquirer THEN <<1>>
    ELSE IF c.select = "cancel" THEN <<130>>
    ELSE IF c.collect = "cancel" THEN <<130>>
    ELSE IF c.urls = <<>> THEN <<0>>
    ELSE IF c.overrides = "cancel" THEN <<130>>
    ELSE <<>>

InitCmd ==
    /\ cmd_in \in CmdInputs
    /\ cmd_in.select = "paste" => cmd_in.collect = "list"
    /\ cmd_exit = <<>>
    /\ urls = <<>> /\ bpc = "idle" /\ i = 0 /\ successes = 0 /\ failures = 0
    /\ env_batch = cmd_in.env /\ prev_batch = None /\ invoked = <<>> /\ outcomes = <<>>
    /\ batch_sleep = <<>> /\ pending = None /\ summary = <<>> /\ later_sleep = <<>>
    /\ DistillIdle
    /\ OptsIdle
    /\ DestIdle
    /\ FindIdle

\* batch.py 46-100: everything before _run_batch_execution
CmdFlow ==
    /\ bpc = "idle"
    /\ cmd_exit = <<>>
    /\ IF CmdPrologue(cmd_in) # <<>>
       THEN /\ cmd_exit' = CmdPrologue(cmd_in)
            /\ UNCHANGED <<urls, bpc>>
       ELSE /\ urls' = cmd_in.urls
            /\ bpc' = "start"
            /\ UNCHANGED cmd_exit
    /\ UNCHANGED <<cmd_in, i, successes, failures, env_batch, prev_batch, invoked,
                   outcomes, batch_sleep, pending, summary, later_sleep>>

BatchCommandExit_CountsFailures(pos) ==
    IF pos = "done" THEN (IF failures > 0 THEN 1 ELSE 0) ELSE 130

\* the exit code once _run_batch_execution is left: 0 when it returns
\* (batch.py 100), 130 when KeyboardInterrupt reaches main (main.py 199-203)
BatchCommandExit(pos) == IF pos = "done" THEN 0 ELSE 130

CmdEnd ==
    /\ bpc \in {"done", "raised"}
    /\ cmd_exit = <<>>
    /\ cmd_exit' = <<BatchCommandExit(bpc)>>
    /\ UNCHANGED <<cmd_in, bvars>>

NextCmd ==
    \/ CmdFlow /\ UNCHANGED <<dvars, ovars, rvars, fvars>>
    \/ BatchStart /\ UNCHANGED <<dvars, ovars, rvars, fvars, cvars>>
    \/ BatchIteration /\ UNCHANGED <<dvars, ovars, rvars, fvars, cvars>>
    \/ BatchLoopEnd /\ UNCHANGED <<dvars, ovars, rvars, fvars, cvars>>
    \/ BatchFinally /\ UNCHANGED <<dvars, ovars, rvars, fvars, cvars>>
    \/ CmdEnd /\ UNCHANGED <<dvars, ovars, rvars, fvars>>

SpecCmd == InitCmd /\ [][NextCmd]_vars

\* the flow got as far as looking at the collected URL list
ListResolved(c) ==
    c.tty /\ c.prereq /\ c.inquirer /\ c.select # "cancel" /\ c.collect = "list"

\* a prompt of the flow was canceled
PromptCanceled(c) ==
    /\ c.tty /\ c.prereq /\ c.inquirer
    /\ \/ c.select = "cancel"
       \/ c.collect = "cancel"
       \/ (c.urls # <<>> /\ c.overrides = "cancel")

ClosedCauses ==
    {"CDN blocked (HTTP 403) - try from residential IP", "HTTP 403 Forbidden",
     "rate limited (HTTP 429)", "network error", "not found (HTTP 404)",
     "download failed", "unknown"}

\* C24: for every raw error text (empty or missing included) the cause
\* stored in a FracturedEntry is one member of a small closed set
\* (provider-blocked, rate-limited, network error, not-found, generic
\* failure, unknown); the cause is for display only.
C24_CauseInClosedSet ==
    \A k \in DOMAIN fractured_entries : fractured_entries[k][2] \in ClosedCauses

\* the format name an engine download call asks for
RequestedName(call) ==
    IF call.video_format # None THEN call.video_format ELSE call.audio_format

\* the latest download call before position n (0 if none)
LastDownloadBefore(n) ==
    IF \E d \in DownloadCalls : d < n
    THEN CHOOSE d \in DownloadCalls : d < n /\ \A e \in DownloadCalls : e < n => e <= d
    ELSE 0

\* the number of first attempts among the first k calls
FirstAttemptsUpTo(k) == Cardinality({n \in FirstAttempts : n <= k})

\* C25: within a job, formats are processed strictly one after another in
\* resolved order: for each format the download (with its fallbacks), the
\* inscription and all uploads come before the next format's download, and
\* an upload of an artifact is issued only after that format's download has
\* succeeded.
C25_FormatsStrictlySequential ==
    /\ \A k \in FirstAttempts :
          /\ FirstAttemptsUpTo(k) <= Len(formats_to_produce)
          /\ RequestedName(calls[k]) = formats_to_produce[FirstAttemptsUpTo(k)]
    /\ dpc \in {"loop", "done"} => Cardinality(FirstAttempts) = fidx
    /\ \A n \in CallsOf("inscribe") \cup CallsOf("upload_gcp") \cup CallsOf("upload_s3") :
          LET d == LastDownloadBefore(n)
          IN /\ d > 0
             /\ calls[d].res = "ok"
             /\ \A x \in (d + 1)..n : calls[x].op # "download"
             /\ (calls[n].op # "inscribe" => calls[n].arg = Artifact(calls[d].arg))

\* two formats, both downloaded and uploaded to both remotes: nine calls,
\* the second format's download after the first format's uploads
C25_Witness ==
    /\ dpc = "done"
    /\ Len(formats_to_produce) = 2
    /\ Len(calls) = 9
    /\ calls[2].op = "download" /\ calls[4].op = "upload_gcp" /\ calls[5].op = "upload_s3"
    /\ calls[6].op = "download" /\ calls[8].op = "upload_gcp" /\ calls[9].op = "upload_s3"

\* the engine download calls made for the format whose first attempt is at k
DownloadsOfFormat(k) ==
    {n \in DownloadCalls :
        /\ n >= k
        /\ \A f \in FirstAttempts : ~(k < f /\ f <= n)}

\* distill(), with the loop taking its steps
SpecDistillFair == SpecDistill /\ WF_vars(NextDistill)

NewRecordKey ==
    IF Len(seal_items') > Len(seal_items)
    THEN seal_items'[Len(seal_items')][1]
    ELSE fractured_entries'[Len(fractured_entries')][1]

\* C27: whether a format is processed as video or as audio depends only on
\* the job's overrides and the config, never on the outcome of earlier
\* formats of the job: every iteration's first download is requested with
\* the arguments that the video override alone determines, and a format
\* that needed no fallback itself is named with the extension that the
\* override alone determines - also after an earlier format's successful
\* audio fallback.
C27_KindIndependentOfEarlierOutcomes ==
    [][fidx' = fidx + 1 =>
          LET fmt == formats_to_produce[fidx']
              first == calls'[Len(calls) + 1]
              downloads == {n \in (Len(calls) + 1)..Len(calls') : calls'[n].op = "download"}
          IN /\ first.op = "download"
             /\ first.video_format = (IF IsVideoRun(job) THEN fmt ELSE None)
             /\ first.audio_format = (IF IsVideoRun(job) THEN None ELSE fmt)
             /\ Cardinality(downloads) = 1 => NewRecordKey = LoopExt(IsVideoRun(job), fmt)
      ]_vars


\* C29: the two "is configured" predicates agree: whenever the resolver
\* keeps S3 (or GCP) because ConfigManager.is_s3_configured()
\* (is_gcp_configured()) is true, the uploader's is_configured() is true as
\* well, so a job never reaches the setup-wizard / Exit(1) branch for a
\* destination that the resolver judged configured.
C29_ConfiguredPredicatesAgree ==
    (dpc # "start" /\ calls # <<>>) =>
        /\ (upload_to_s3 /\ IsS3Configured(cfg)) => S3UploaderConfigured(cfg)
        /\ (upload_to_gcp /\ IsGcpConfigured(cfg)) => GcpUploaderConfigured(cfg)


\* the files that the job's successful engine downloads left behind
ArtifactFiles ==
    {Artifact(calls[k].arg) : k \in {n \in DownloadCalls : calls[n].res = "ok"}}

\* C30: within one job, distinct requested formats get distinct output file
\* names and distinct seal/fracture extension keys: no format's artifact
\* path or result record coincides with that of another format of the job
\* (for example mp3 and ogg, or an audio format and a video format taken
\* from the config).
C30_DistinctNamesAndKeys ==
    (/\ dpc = "done"
     /\ \A a, b \in DOMAIN formats_to_produce :
           a # b => formats_to_produce[a] # formats_to_produce[b]) =>
        /\ Cardinality(SealKeys \cup FractureKeys) = Len(formats_to_produce)
        /\ Cardinality(ArtifactFiles) = Len(seal_items)

====
